---------------------------- MODULE Spec2Model ----------------------------
(***************************************************************************)
(* A model of src/action_main.py: the poll cycle of main, the model        *)
(* fallback selector generate_with_fallback, the three-tier transcript     *)
(* cascade get_transcript, the response parser of analyze_video, the audio *)
(* renderer, the Telegram delivery and the history ledger.                 *)
(*                                                                         *)
(* Conventions.                                                            *)
(*  - A Python string is a sequence of tokens.  The two literal markers    *)
(*    "---TELEGRAM---" and "---PODCAST---" are the tokens "T" and "P";     *)
(*    every other token is one character.                                  *)
(*  - An optional value (a Python value that may be None) is a sequence of *)
(*    length at most one: None is << >> and a value x is << x >>.          *)
(*  - External collaborators (feed parser, caption API, downloader,        *)
(*    generative backend, speech synthesis, messaging endpoint, the file   *)
(*    system) answer nondeterministically from small sets.                 *)
(***************************************************************************)
EXTENDS Integers, Sequences, FiniteSets, TLC

(***************************************************************************)
(* Bounds of the model.                                                    *)
(***************************************************************************)
\* Longest backend response text (in tokens) given to the parser in SpecParse.
MaxTextLen == 4
\* Most feeds configured in YOUTUBE_FEEDS.
MaxFeeds == 2
\* Most entries a parsed feed holds.
MaxEntries == 2
\* Most status polls of an uploaded file that still answer PROCESSING.
MaxPolls == 2
\* Most add-and-save operations of one run of SpecLedger.
MaxAdds == 3
\* The cap of save_history.  The source keeps 500 entries
\* (src/action_main.py:127-128); the model keeps HistoryCap, so that the
\* overflow of the cap is within reach of an exhaustive search.
HistoryCap == 2

(***************************************************************************)
(* Optional values, and Python truthiness of an optional string.           *)
(***************************************************************************)
Min(a, b) == IF a < b THEN a ELSE b

None == << >>

Some(x) == << x >>

IsNone(o) == o = None

Val(o) == o[1]

\* `not x` for x a string or None.
Falsy(o) == IsNone(o) \/ Val(o) = << >>

(***************************************************************************)
(* Strings as token sequences.                                             *)
(***************************************************************************)
TELEGRAM_MARKER == "T"

PODCAST_MARKER == "P"

Whitespace == {" ", "\n"}

\* `tok in s`
Contains(s, tok) == \E i \in 1..Len(s) : s[i] = tok

\* The index of the first tok in s, 0 when there is none.
Find(s, tok) ==
    IF Contains(s, tok)
    THEN CHOOSE i \in 1..Len(s) : s[i] = tok /\ \A j \in 1..(i - 1) : s[j] # tok
    ELSE 0

\* s.split(sep): the pieces between the occurrences of sep.
RECURSIVE Split(_, _)
Split(s, sep) ==
    LET i == Find(s, sep)
    IN  IF i = 0 THEN << s >>
        ELSE << SubSeq(s, 1, i - 1) >> \o Split(SubSeq(s, i + 1, Len(s)), sep)

\* s.replace(tok, "")
Remove(s, tok) == SelectSeq(s, LAMBDA x : x # tok)

RECURSIVE LStrip(_)
LStrip(s) ==
    IF s # << >> /\ Head(s) \in Whitespace THEN LStrip(Tail(s)) ELSE s

RECURSIVE RStrip(_)
RStrip(s) ==
    IF s # << >> /\ s[Len(s)] \in Whitespace
    THEN RStrip(SubSeq(s, 1, Len(s) - 1))
    ELSE s

\* s.strip()
Strip(s) == RStrip(LStrip(s))

\* re.sub(open .*? close, '', s): leftmost, non-greedy, non-overlapping; the
\* dot does not match a line break.
RECURSIVE ReSubSpan(_, _, _)
ReSubSpan(s, open, close) ==
    IF s = << >> THEN << >>
    ELSE IF Head(s) # open THEN << Head(s) >> \o ReSubSpan(Tail(s), open, close)
    ELSE LET rest == Tail(s)
             j    == Find(rest, close)
         IN  IF j # 0 /\ ~Contains(SubSeq(rest, 1, j - 1), "\n")
             THEN ReSubSpan(SubSeq(rest, j + 1, Len(rest)), open, close)
             ELSE << Head(s) >> \o ReSubSpan(rest, open, close)

(***************************************************************************)
(* analyze_video: the parsing of the backend's response.                   *)
(***************************************************************************)
\* The link line appended to the short post: "\n\n<link emoji> " + video_url;
\* the url is one opaque token.
LinkLine == << "\n", "\n", "link", " ", "url" >>

\* FINAL CLEANUP of the spoken script: the three re.sub calls, in order.
FinalCleanup(podcast_txt) ==
    ReSubSpan(ReSubSpan(ReSubSpan(podcast_txt, "*", "*"), "[", "]"), "(", ")")

\* parts[0].replace("---TELEGRAM---", "").strip()
TelegramTxt(parts) == Strip(Remove(parts[1], TELEGRAM_MARKER))

\* parts[1].strip(), then the final cleanup
PodcastTxt(parts) == FinalCleanup(Strip(parts[2]))

\* What analyze_video returns for the text generate_with_fallback gave it
\* (None or a string): None, or the dict {"telegram": ..., "podcast": ...}.
\* No step of the try block can raise once both markers are in the text
\* (parts has at least two elements), so the except branch is never taken.
analyze_parse(text) ==
    IF Falsy(text) THEN None
    ELSE IF ~Contains(Val(text), TELEGRAM_MARKER) \/ ~Contains(Val(text), PODCAST_MARKER)
    THEN None
    ELSE LET parts == Split(Val(text), PODCAST_MARKER)
         IN  Some([telegram |-> TelegramTxt(parts) \o LinkLine,
                   podcast  |-> PodcastTxt(parts)])

(***************************************************************************)
(* The inputs the collaborators are drawn from.                            *)
(***************************************************************************)
\* The characters of a response text, besides the two markers.
Alphabet == {TELEGRAM_MARKER, PODCAST_MARKER, "a", " ", "*", "[", "]", "(", ")"}

\* Every text of at most n tokens.
TextsUpTo(n) == UNION {[1..k -> Alphabet] : k \in 0..n}

\* The response texts a model answers with inside a poll cycle.
Responses ==
    { << >>,
      << "a" >>,
      << TELEGRAM_MARKER, "a", PODCAST_MARKER, "a" >>,
      << TELEGRAM_MARKER, "a" >>,
      << PODCAST_MARKER, "a", TELEGRAM_MARKER >> }

\* The video ids feeds and the history file hold.
VideoIds == {"v1", "v2", "v3"}

\* The sequences over S of at most n elements, none repeated.
DistinctSeqs(S, n) ==
    {q \in UNION {[1..k -> S] : k \in 0..n} :
        \A i, j \in 1..Len(q) : i # j => q[i] # q[j]}

\* What feedparser.parse yields as feed.entries: the video ids, newest first.
FeedEntries == DistinctSeqs(VideoIds, MaxEntries)

\* The strings of feeds.json: a url, and a blank string.
FeedStrings == {<< "u" >>, << " " >>}

FeedConfigs == UNION {[1..k -> FeedStrings] : k \in 0..MaxFeeds}

\* The joined caption text of tiers 1 and 2: empty when there are no entries.
CaptionTexts == {<< >>, << "a" >>}

\* The states of history.json at the start: absent, unreadable, or
\* {"videos": [...]} as save_history writes it (no repeats, at most HistoryCap
\* entries).  Video ids are interchangeable and the feeds range over all of
\* them, so the lists "v1", "v1 v2", ... stand for every list of their length.
CanonicalIds == << "v1", "v2", "v3" >>

HistoryFiles ==
    {[state |-> "missing", videos |-> << >>], [state |-> "malformed", videos |-> << >>]}
    \cup {[state |-> "ok", videos |-> SubSeq(CanonicalIds, 1, k)] :
            k \in 0..Min(HistoryCap, Len(CanonicalIds))}

\* HTTP status codes of the messaging endpoint.
Statuses == {200, 400, 403, 500}

(***************************************************************************)
(* generate_with_fallback: the candidate list and the failure classes.     *)
(***************************************************************************)
\* MASTER PRIORITY LIST.  The first two literals of the source are adjacent
\* with no comma between them, so Python concatenates them into one entry.
models_to_try ==
    << "gemini-2.5-flashgemini-2.0-flash-exp",
       "gemini-1.5-pro",
       "gemini-1.5-flash",
       "gemini-2.5-flash-lite",
       "gemini-flash-lite-latest",
       "gemini-1.5-flash-8b",
       "gemini-2.5-flash-preview-09-2025",
       "gemini-2.5-flash-lite-preview-09-2025",
       "gemma-3-27b-it",
       "gemma-3-9b-it",
       "gemma-3-4b-it",
       "gemma-3-1b-it" >>

\* The substrings of str(e).lower() the handler looks for; an error message
\* is the set of those it contains.
ErrorMarks == {"429", "quota", "404", "not found", "503", "overloaded"}

\* The error messages an attempt fails with: those holding at most two marks
\* (every pair of classes meets in one of them).
ErrorMessages == {m \in SUBSET ErrorMarks : Cardinality(m) <= 2}

\* A chain that looks for the server errors before the unknown models.
ClassifyOverloadedFirst(error_msg) ==
    IF "429" \in error_msg \/ "quota" \in error_msg THEN "RateLimited"
    ELSE IF "503" \in error_msg \/ "overloaded" \in error_msg THEN "Overloaded"
    ELSE IF "404" \in error_msg \/ "not found" \in error_msg THEN "NotFound"
    ELSE "Other"

\* The if/elif chain of the except block.
Classify(error_msg) ==
    IF "429" \in error_msg \/ "quota" \in error_msg THEN "RateLimited"
    ELSE IF "404" \in error_msg \/ "not found" \in error_msg THEN "NotFound"
    ELSE IF "503" \in error_msg \/ "overloaded" \in error_msg THEN "Overloaded"
    ELSE "Other"

\* The time.sleep of each branch, in seconds.
Pause(class) ==
    IF class = "RateLimited" THEN 1 ELSE IF class = "Overloaded" THEN 2 ELSE 0

\* A handler whose last branch re-raises instead of continuing.
ContinuesButOther(class) == class \in {"RateLimited", "NotFound", "Overloaded"}

\* Whether the branch of a class ends in `continue` (all four do); a branch
\* that did not would let the exception leave the function.
Continues(class) == class \in {"RateLimited", "NotFound", "Overloaded", "Other"}

\* A loop that steps over a candidate.
NextCandidateSkipping(i) == i + 2

\* The for loop's step to the next element of models_to_try.
NextCandidate(i) == i + 1

(***************************************************************************)
(* The history ledger.                                                     *)
(***************************************************************************)
\* load_history: the set of the file's ids; the empty set when the file is
\* absent or cannot be read as {"videos": [...]}.
load_history(file) ==
    IF file.state = "ok" THEN {file.videos[i] : i \in 1..Len(file.videos)} ELSE {}

\* list(history): a Python set has no order of insertion; its iteration order
\* follows the hashes of its elements, which for strings change from process
\* to process.  Any order is possible.
ListOf(history) ==
    {q \in [1..Cardinality(history) -> history] :
        \A i, j \in 1..Len(q) : i # j => q[i] # q[j]}

\* history_list[-500:]
LastN(q, n) == IF Len(q) > n THEN SubSeq(q, Len(q) - n + 1, Len(q)) ELSE q

\* save_history: the states history.json may be left in, each with whether the
\* write went through.  A failed write (caught and logged) leaves the file as
\* it was, or truncated.
save_history(history, file) ==
    {[file |-> [state |-> "ok", videos |-> LastN(q, HistoryCap)], ok |-> TRUE] :
        q \in ListOf(history)}
    \cup {[file |-> file, ok |-> FALSE],
          [file |-> [state |-> "malformed", videos |-> << >>], ok |-> FALSE]}

(***************************************************************************)
(* main: the selection of a feed's entry.                                  *)
(***************************************************************************)
\* A selection that takes the last entry of the feed.
Oldest(entries) == entries[Len(entries)]

\* entry = feed.entries[0]
Newest(entries) == entries[1]

\* feed_urls = [f.strip() for f in YOUTUBE_FEEDS if f.strip()]
StrippedFeeds(feeds) ==
    LET stripped == [i \in 1..Len(feeds) |-> Strip(feeds[i])]
    IN  SelectSeq(stripped, LAMBDA f : f # << >>)

(***************************************************************************)
(* feeds.json, lines 33-44.  A JSON value is a record [t, v]: t is its     *)
(* Python type after json.load, v its content.                             *)
(***************************************************************************)
JStr(s) == [t |-> "str", v |-> s]

JNum(n) == [t |-> "num", v |-> n]

JNull == [t |-> "null", v |-> 0]

JList(items) == [t |-> "list", v |-> items]

\* A dict: the sequence of its entries [k, val], no key twice.
JObj(entries) == [t |-> "obj", v |-> entries]

\* bool(x)
Truthy(x) ==
    IF x.t = "null" THEN FALSE
    ELSE IF x.t = "num" THEN x.v # 0
    ELSE x.v # << >>

\* `key in item` for a dict item.
HasKey(item, key) == \E i \in 1..Len(item.v) : item.v[i].k = key

\* item[key]
Get(item, key) == (CHOOSE e \in {item.v[i] : i \in 1..Len(item.v)} : e.k = key).val

\* Whether `"url" in item` raises: a number or None is not a container.
UrlInRaises(item) == item.t \in {"num", "null"}

\* `"url" in item` for a container: a key of a dict; for a string a
\* substring test and for a list a membership test, both false for the
\* strings and lists of the model (a url is the one token "u").
UrlIn(item) == item.t = "obj" /\ HasKey(item, "url")

\* YOUTUBE_FEEDS = [] of the except branch, line 44.
NoFeeds == JList(<< >>)

\* The states of feeds.json: absent, not JSON, or a JSON value.
FeedFile(state, value) == [state |-> state, value |-> value]

UrlObject == JObj(<< [k |-> "url", val |-> JStr(<< "u" >>)] >>)

FeedFiles ==
    {FeedFile("missing", JNull), FeedFile("invalid", JNull)}
    \cup {FeedFile("ok", JList([i \in 1..Len(c) |-> JStr(c[i])])) : c \in FeedConfigs}
    \cup {FeedFile("ok", value) : value \in
            { JList(<< UrlObject >>),
              JList(<< UrlObject, JObj(<< [k |-> "title", val |-> JStr(<< "u" >>)] >>) >>),
              JList(<< JObj(<< [k |-> "url", val |-> JNum(5)] >>) >>),
              JList(<< UrlObject, JNum(5) >>),
              JList(<< JNum(5) >>),
              JList(<< JStr(<< "u" >>), UrlObject >>),
              JNull,
              JNum(0),
              JNum(5),
              JObj(<< >>),
              UrlObject,
              JStr(<< "u" >>) }}

\* Lines 34-44: what the import leaves in YOUTUBE_FEEDS.  open or json.load
\* raises; or `data and isinstance(data[0], dict)` is evaluated, where
\* data[0] raises for a number (TypeError) and for a dict (KeyError: its keys
\* are strings); or the comprehension over the items raises.  Every raise is
\* caught by the except, which leaves the empty list.
LoadFeeds(file) ==
    IF file.state # "ok" THEN NoFeeds
    ELSE LET data == file.value
         IN  IF ~Truthy(data) THEN data
             ELSE IF data.t \in {"num", "obj"} THEN NoFeeds
             ELSE IF data.t = "list" /\ data.v[1].t = "obj"
             THEN IF \E i \in 1..Len(data.v) : UrlInRaises(data.v[i])
                  THEN NoFeeds
                  ELSE LET kept == SelectSeq(data.v, UrlIn)
                       IN  JList([i \in 1..Len(kept) |-> Get(kept[i], "url")])
             ELSE data

\* Whether `for f in YOUTUBE_FEEDS` can iterate the value.
Iterable(x) == x.t \in {"list", "str", "obj"}

\* The values the iteration yields: the elements of a list, the characters
\* of a string, the keys of a dict.
Items(x) ==
    IF x.t = "list" THEN x.v
    ELSE IF x.t = "str" THEN [i \in 1..Len(x.v) |-> JStr(<< x.v[i] >>)]
    ELSE [i \in 1..Len(x.v) |-> JStr(<< x.v[i].k >>)]

\* Whether line 365 runs through: YOUTUBE_FEEDS is iterable and every item
\* has a strip method (is a string).
CanStrip(x) == Iterable(x) /\ \A i \in 1..Len(Items(x)) : Items(x)[i].t = "str"

\* The strings line 365 strips.
FeedStringsOf(x) == [i \in 1..Len(Items(x)) |-> Items(x)[i].v]

(***************************************************************************)
(* The state.                                                              *)
(***************************************************************************)
VARIABLES
    pc,             \* where main (or the function it is in) stands
    feedsJson,      \* feeds.json
    YOUTUBE_FEEDS,  \* the value the import made of feeds.json
    histFile,       \* history.json
    history,        \* main's history set
    loaded,         \* the set load_history returned at the start of the cycle
    feed_urls,      \* main's feed_urls
    feedIdx,        \* the position of the feed loop (the feed being polled)
    feed,           \* the entries of the last feed parsed (None before)
    new_videos,     \* main's new_videos
    itemIdx,        \* the position of the video loop (0 before the first)
    transcript,     \* main's transcript (optional string)
    content,        \* main's content (optional dict)
    audio_ok,       \* main's audio_ok
    success,        \* main's success
    trace,          \* what was done for which item so far, in order
    gwfCaller,      \* who called generate_with_fallback: "tier3" or "analyze"
    gwfStatus,      \* "idle", "running", "returned" or "raised"
    modelIdx,       \* the position of the loop over models_to_try
    attempted,      \* the model names tried in this call, in order
    failures,       \* how many of those attempts failed
    response,       \* the successful response of this call: [model, text]
    gwfResult,      \* what the call returned (optional string)
    lastClass,      \* the failure class of the last attempt ("none": no failure)
    slept,          \* the seconds slept after the last attempt
    tiers,          \* the tiers of get_transcript invoked in this call, in order
    text,           \* METHOD 1's text: the joined captions (None: not assigned)
    found_text,     \* METHOD 2's found_text
    localAudio,     \* the video ids whose audio_<id>.mp3 is on disk
    uploaded,       \* the uploaded file: "none", "PROCESSING", "ACTIVE",
                    \*   "FAILED" or "deleted"
    polls,          \* status polls made in this call
    audio_file,     \* send_to_telegram's audio_file argument
    status,         \* response.status_code of the last text post
    textPosts,      \* the parse_mode of each text post of this delivery
    voicePosts,     \* for each voice post of this delivery, the item whose
                    \*   script story.mp3 was rendered from
    storyMp3,       \* story.mp3: 0 when absent, else the item it was rendered for
    parseIn,        \* SpecParse: the response text
    parseOut,       \* SpecParse: what the parser made of it
    added,          \* SpecLedger: the ids added so far, in order
    exc             \* SpecClassify: str(e).lower() of the exception caught

gwfVars == << gwfCaller, gwfStatus, modelIdx, attempted, failures, response,
              gwfResult, lastClass, slept >>

tierVars == << tiers, text, found_text, localAudio, uploaded, polls >>

tgVars == << audio_file, status, textPosts, voicePosts >>

feedVars == << feedsJson, YOUTUBE_FEEDS, feed_urls, feedIdx, feed, new_videos >>

ledgerVars == << histFile, history, loaded >>

itemVars == << transcript, content, audio_ok, success >>

otherSpecVars == << parseIn, parseOut, added, exc >>

vars == << pc, feedVars, ledgerVars, itemIdx, itemVars, trace, gwfVars, tierVars,
           tgVars, storyMp3, otherSpecVars >>

\* The item the video loop is at.
video == new_videos[itemIdx]

Event(op, ok) == [op |-> op, item |-> itemIdx, ok |-> ok]

(***************************************************************************)
(* The initial state: the module has been imported (feeds.json is loaded), *)
(* main has not started.  A function's local variables hold the values     *)
(* below while the function is not running, and are set back to them by    *)
(* the caller's next step after the function returned.                     *)
(***************************************************************************)
NoGwf ==
    /\ gwfCaller = "none"
    /\ gwfStatus = "idle"
    /\ modelIdx = 1
    /\ attempted = << >>
    /\ failures = 0
    /\ response = None
    /\ gwfResult = None
    /\ lastClass = "none"
    /\ slept = 0

NoTiers ==
    /\ tiers = << >>
    /\ text = None
    /\ found_text = None
    /\ uploaded = "none"
    /\ polls = 0

NoDelivery ==
    /\ audio_file = None
    /\ status = 0
    /\ textPosts = << >>
    /\ voicePosts = << >>

NoItem ==
    /\ transcript = None
    /\ content = None
    /\ audio_ok = FALSE
    /\ success = FALSE

NoPoll ==
    /\ history = {}
    /\ loaded = {}
    /\ feed_urls = << >>
    /\ feedIdx = 1
    /\ feed = None
    /\ trace = << >>
    /\ storyMp3 = 0

NoOtherSpec ==
    /\ parseIn = None
    /\ parseOut = None
    /\ added = << >>
    /\ exc = None

Init ==
    /\ pc = "start"
    /\ feedsJson \in FeedFiles
    /\ YOUTUBE_FEEDS = LoadFeeds(feedsJson)
    /\ histFile \in HistoryFiles
    /\ new_videos = << >>
    /\ itemIdx = 0
    /\ localAudio = {}
    /\ NoPoll
    /\ NoItem
    /\ NoGwf
    /\ NoTiers
    /\ NoDelivery
    /\ NoOtherSpec

(***************************************************************************)
(* main, lines 362-387: load the ledger, poll each feed.                   *)
(***************************************************************************)
\* Line 365 raises when YOUTUBE_FEEDS cannot be iterated or an item of it has
\* no strip method; nothing in main catches it.
main_start ==
    /\ pc = "start"
    /\ history' = load_history(histFile)
    /\ loaded' = load_history(histFile)
    /\ new_videos' = << >>
    /\ feedIdx' = 1
    /\ IF CanStrip(YOUTUBE_FEEDS)
       THEN /\ feed_urls' = StrippedFeeds(FeedStringsOf(YOUTUBE_FEEDS))
            /\ pc' = IF feed_urls' = << >> THEN "videos" ELSE "feeds"
       ELSE /\ feed_urls' = << >>
            /\ pc' = "crashed"
    /\ UNCHANGED << feedsJson, YOUTUBE_FEEDS, feed, histFile, itemIdx, itemVars, trace, gwfVars,
                    tierVars, tgVars, storyMp3, otherSpecVars >>

\* A feed loop that an exception or an empty feed leaves for good.
AfterFeedAborting(i) == "videos"

\* The next feed, or the video loop when there is none.
AfterFeed(i) == IF i > Len(feed_urls) THEN "videos" ELSE "feeds"

\* feed = feedparser.parse(feed_url): it raises (the except logs it and the
\* loop goes on), or yields the feed.
parse_feed ==
    /\ pc = "feeds"
    /\ feedIdx <= Len(feed_urls)
    /\ \/ /\ feedIdx' = feedIdx + 1
          /\ pc' = AfterFeed(feedIdx')
          /\ UNCHANGED feed
       \/ /\ feed' \in {Some(entries) : entries \in FeedEntries}
          /\ pc' = "feed_parsed"
          /\ UNCHANGED feedIdx
    /\ UNCHANGED << feedsJson, YOUTUBE_FEEDS, feed_urls, new_videos, ledgerVars, itemIdx, itemVars,
                    trace, gwfVars, tierVars, tgVars, storyMp3, otherSpecVars >>

\* Lines 370-385, the rest of the try block: no entries, continue; else the
\* first entry is taken, and appended when its id is not in history.  Reading
\* an attribute of the entry (yt_videoid, title, link) or feed.feed.title may
\* raise, and then nothing is appended.
select_entry ==
    /\ pc = "feed_parsed"
    /\ \E attrs_ok \in BOOLEAN :
         new_videos' =
            IF Val(feed) = << >> \/ ~attrs_ok THEN new_videos
            ELSE IF Newest(Val(feed)) \notin history
                 THEN Append(new_videos, [id |-> Newest(Val(feed))])
                 ELSE new_videos
    /\ feedIdx' = feedIdx + 1
    /\ pc' = AfterFeed(feedIdx')
    /\ UNCHANGED << feedsJson, YOUTUBE_FEEDS, feed_urls, feed, ledgerVars, itemIdx, itemVars, trace,
                    gwfVars, tierVars, tgVars, storyMp3, otherSpecVars >>

(***************************************************************************)
(* main, line 389: `for video in new_videos`.                              *)
(***************************************************************************)
\* The next item, and the entry into get_transcript(video["id"]).  (The last
\* feed parsed is not read after the feed loop.)
next_video ==
    /\ pc = "videos"
    /\ itemIdx < Len(new_videos)
    /\ itemIdx' = itemIdx + 1
    /\ feed' = None
    /\ pc' = "tier1"
    /\ UNCHANGED << feedsJson, YOUTUBE_FEEDS, feed_urls, feedIdx, new_videos, ledgerVars, itemVars, trace, gwfVars, tierVars, tgVars,
                    storyMp3, otherSpecVars >>

\* The loop is over: "Processing complete".
main_done ==
    /\ pc = "videos"
    /\ itemIdx = Len(new_videos)
    /\ feed' = None
    /\ pc' = "done"
    /\ UNCHANGED << feedsJson, YOUTUBE_FEEDS, feed_urls, feedIdx, new_videos, ledgerVars, itemIdx, itemVars, trace, gwfVars,
                    tierVars, tgVars, storyMp3, otherSpecVars >>

\* The iteration of the video loop ends (`continue`, or the end of the body):
\* the values of this item are gone.
EndIteration ==
    /\ pc' = "videos"
    /\ transcript' = None
    /\ content' = None
    /\ audio_ok' = FALSE
    /\ success' = FALSE

(***************************************************************************)
(* get_transcript, lines 136-253.                                          *)
(***************************************************************************)
\* What get_transcript's `return text` does: main's transcript is assigned.
ReturnTranscript(value) ==
    /\ transcript' = value
    /\ trace' = Append(trace, Event("transcript", ~Falsy(value)))
    /\ pc' = "got_transcript"

\* Where the except of METHOD 1 leads: on to METHOD 2.
AfterTier1Failure == "tier2"

\* The joined text is assigned but not returned: METHOD 2 runs next.
Tier1NoReturn(joined) ==
    /\ text' = Some(joined)
    /\ pc' = "tier2"
    /\ UNCHANGED << transcript, trace >>

\* Lines 148-149: the joined text is assigned and returned.
Tier1Return(joined) ==
    /\ text' = Some(joined)
    /\ ReturnTranscript(Some(joined))

\* A METHOD 2 that gives up: get_transcript returns without METHOD 3.
AfterTier2GiveUp == "got_transcript"

\* Where METHOD 2 leads when it raised or found no text: on to METHOD 3.
AfterTier2Failure == "tier3"

\* METHOD 1: the caption API raises, or yields the entries whose texts are
\* joined and returned (an empty string when there are no entries).
tier1 ==
    /\ pc = "tier1"
    /\ tiers' = Append(tiers, 1)
    /\ \/ /\ pc' = AfterTier1Failure
          /\ UNCHANGED << text, transcript, trace >>
       \/ \E joined \in CaptionTexts : Tier1Return(joined)
    /\ UNCHANGED << feedVars, ledgerVars, itemIdx, content, audio_ok, success, gwfVars,
                    found_text, localAudio, uploaded, polls, tgVars, storyMp3,
                    otherSpecVars >>

\* METHOD 2: the downloader (or the reading of the subtitle file) raises; or
\* no .vtt file is found (found_text stays None); or the cleaned text of the
\* file is found_text, returned when it is not empty.
tier2 ==
    /\ pc = "tier2"
    /\ tiers' = Append(tiers, 2)
    /\ \/ /\ pc' = AfterTier2Failure
          /\ UNCHANGED << found_text, transcript, trace >>
       \/ /\ found_text' \in {None} \cup {Some(t) : t \in CaptionTexts}
          /\ IF ~Falsy(found_text')
             THEN ReturnTranscript(found_text')
             ELSE /\ pc' = AfterTier2Failure
                  /\ UNCHANGED << transcript, trace >>
    /\ UNCHANGED << feedVars, ledgerVars, itemIdx, content, audio_ok, success, gwfVars,
                    text, localAudio, uploaded, polls, tgVars, storyMp3, otherSpecVars >>

\* METHOD 3, lines 202-226: the audio download raises (None is returned); or it
\* ends, having written audio_<id>.mp3 or not.  Without the file None is
\* returned.
tier3_download ==
    /\ pc = "tier3"
    /\ tiers' = Append(tiers, 3)
    /\ \/ /\ ReturnTranscript(None)
          /\ UNCHANGED localAudio
       \/ \E written \in BOOLEAN :
            /\ localAudio' = IF written THEN localAudio \cup {video.id} ELSE localAudio
            /\ IF video.id \in localAudio'
               THEN /\ pc' = "tier3_upload"
                    /\ UNCHANGED << transcript, trace >>
               ELSE ReturnTranscript(None)
    /\ UNCHANGED << feedVars, ledgerVars, itemIdx, content, audio_ok, success, gwfVars,
                    text, found_text, uploaded, polls, tgVars, storyMp3, otherSpecVars >>

\* genai.upload_file raises (None is returned, the local file stays), or
\* yields the uploaded file in some state.
tier3_upload ==
    /\ pc = "tier3_upload"
    /\ \/ /\ ReturnTranscript(None)
          /\ UNCHANGED uploaded
       \/ /\ uploaded' \in {"PROCESSING", "ACTIVE", "FAILED"}
          /\ pc' = "tier3_wait"
          /\ UNCHANGED << transcript, trace >>
    /\ UNCHANGED << feedVars, ledgerVars, itemIdx, content, audio_ok, success, gwfVars,
                    tiers, text, found_text, localAudio, polls, tgVars, storyMp3,
                    otherSpecVars >>

\* One round of `while uploaded_file.state.name == "PROCESSING"`: genai.get_file
\* raises (None is returned), or yields the file's new state.  The backend
\* answers PROCESSING at most MaxPolls times.
tier3_poll ==
    /\ pc = "tier3_wait"
    /\ uploaded = "PROCESSING"
    /\ polls' = polls + 1
    /\ \/ /\ ReturnTranscript(None)
          /\ UNCHANGED uploaded
       \/ /\ uploaded' \in {"ACTIVE", "FAILED"}
                           \cup (IF polls' < MaxPolls THEN {"PROCESSING"} ELSE {})
          /\ UNCHANGED << pc, transcript, trace >>
    /\ UNCHANGED << feedVars, ledgerVars, itemIdx, content, audio_ok, success, gwfVars,
                    tiers, text, found_text, localAudio, tgVars, storyMp3,
                    otherSpecVars >>

\* The entry into generate_with_fallback.
CallGwf(caller) ==
    /\ gwfCaller' = caller
    /\ gwfStatus' = "running"
    /\ modelIdx' = 1
    /\ attempted' = << >>
    /\ failures' = 0
    /\ response' = None
    /\ gwfResult' = None
    /\ lastClass' = "none"
    /\ slept' = 0
    /\ pc' = "gwf"

\* generate_with_fallback and its caller have returned.
LeaveGwf ==
    /\ gwfCaller' = "none"
    /\ gwfStatus' = "idle"
    /\ modelIdx' = 1
    /\ attempted' = << >>
    /\ failures' = 0
    /\ response' = None
    /\ gwfResult' = None
    /\ lastClass' = "none"
    /\ slept' = 0

\* The upload is no longer PROCESSING: the selector is asked to transcribe it.
tier3_transcribe ==
    /\ pc = "tier3_wait"
    /\ uploaded # "PROCESSING"
    /\ CallGwf("tier3")
    /\ UNCHANGED << feedVars, ledgerVars, itemIdx, itemVars, trace, tierVars, tgVars,
                    storyMp3, otherSpecVars >>

\* Lines 241-247, the cleanup and the return: os.remove, then
\* uploaded_file.delete(), in one try whose failure is swallowed; a failing
\* os.remove skips the delete.
tier3_cleanup ==
    /\ pc = "tier3_cleanup"
    /\ \/ UNCHANGED << localAudio, uploaded >>
       \/ /\ localAudio' = localAudio \ {video.id}
          /\ uploaded' \in {uploaded, "deleted"}
    /\ ReturnTranscript(gwfResult)
    /\ UNCHANGED << feedVars, ledgerVars, itemIdx, content, audio_ok, success, gwfVars,
                    tiers, text, found_text, polls, tgVars, storyMp3, otherSpecVars >>

(***************************************************************************)
(* generate_with_fallback, lines 78-111.                                   *)
(***************************************************************************)
\* Back in the caller, with the value returned.
GwfReturn(value) ==
    /\ gwfResult' = value
    /\ gwfStatus' = "returned"
    /\ pc' = IF gwfCaller = "tier3" THEN "tier3_cleanup" ELSE "analyze_parse"

\* The except block, lines 85-108, for the message of the exception caught:
\* the message is classified, the pause of its class is slept, and the loop
\* continues with the next candidate.
HandleFailure(error_msg) ==
    /\ failures' = failures + 1
    /\ lastClass' = Classify(error_msg)
    /\ slept' = Pause(Classify(error_msg))
    /\ IF Continues(Classify(error_msg))
       THEN /\ modelIdx' = NextCandidate(modelIdx)
            /\ UNCHANGED << pc, gwfStatus >>
       ELSE /\ gwfStatus' = "raised"
            /\ pc' = "crashed"
            /\ UNCHANGED modelIdx
    /\ UNCHANGED << response, gwfResult >>

\* One iteration of the loop: the model answers with a text, which is
\* returned; or the attempt raises, the message is classified, the pause of
\* its class is slept and the loop continues.
gwf_attempt ==
    /\ pc = "gwf"
    /\ modelIdx \in 1..Len(models_to_try)
    /\ attempted' = Append(attempted, models_to_try[modelIdx])
    /\ \/ \E reply \in Responses :
            /\ response' = Some([model |-> models_to_try[modelIdx], text |-> reply])
            /\ GwfReturn(Some(reply))
            /\ lastClass' = "none"
            /\ slept' = 0
            /\ UNCHANGED << modelIdx, failures >>
       \/ \E error_msg \in ErrorMessages : HandleFailure(error_msg)
    /\ UNCHANGED << feedVars, ledgerVars, itemIdx, itemVars, trace, gwfCaller, tierVars,
                    tgVars, storyMp3, otherSpecVars >>

\* The list is exhausted: "ALL models failed", return None.
gwf_exhausted ==
    /\ pc = "gwf"
    /\ modelIdx > Len(models_to_try)
    /\ GwfReturn(None)
    /\ UNCHANGED << feedVars, ledgerVars, itemIdx, itemVars, trace, gwfCaller, modelIdx,
                    attempted, failures, response, lastClass, slept, tierVars, tgVars,
                    storyMp3, otherSpecVars >>

(***************************************************************************)
(* main, lines 392-408: the stages of one item.                            *)
(***************************************************************************)
\* `if not transcript: continue`
SkipsOnNoTranscript(t) == Falsy(t)

\* A main that goes on to the audio rendering whatever analyze_video returned.
SkipsNever(c) == FALSE

\* `if not content: continue`
SkipsOnNoContent(c) == IsNone(c)

\* Line 393, and the entry into analyze_video, which builds the prompt from
\* the transcript (not read again afterwards) and calls the selector.
got_transcript ==
    /\ pc = "got_transcript"
    /\ IF SkipsOnNoTranscript(transcript)
       THEN /\ EndIteration
            /\ LeaveGwf
       ELSE /\ CallGwf("analyze")
            /\ transcript' = None
            /\ UNCHANGED << content, audio_ok, success >>
    /\ tiers' = << >>
    /\ text' = None
    /\ found_text' = None
    /\ uploaded' = "none"
    /\ polls' = 0
    /\ UNCHANGED << feedVars, ledgerVars, itemIdx, trace, localAudio, tgVars,
                    storyMp3, otherSpecVars >>

\* analyze_video, lines 288-311: the value it returns becomes main's content.
analyze_return ==
    /\ pc = "analyze_parse"
    /\ content' = analyze_parse(gwfResult)
    /\ trace' = Append(trace, Event("synth", ~IsNone(content')))
    /\ pc' = "got_content"
    /\ LeaveGwf
    /\ UNCHANGED << feedVars, ledgerVars, itemIdx, transcript, audio_ok, success,
                    tierVars, tgVars, storyMp3, otherSpecVars >>

\* Line 397.
got_content ==
    /\ pc = "got_content"
    /\ IF SkipsOnNoContent(content)
       THEN EndIteration
       ELSE /\ pc' = "tts"
            /\ UNCHANGED itemVars
    /\ UNCHANGED << feedVars, ledgerVars, itemIdx, trace, gwfVars, tierVars,
                    tgVars, storyMp3, otherSpecVars >>

\* A main that passes "story.mp3" whatever generate_audio returned.
AudioArgAlways(ok) == Some("story.mp3")

\* The audio_file argument main passes to send_to_telegram.
AudioArg(ok) == IF ok THEN Some("story.mp3") ELSE None

\* generate_audio(content["podcast"]) and the entry into send_to_telegram.
\* The save succeeds and story.mp3 holds this item's script; or it raises,
\* before it opened the file (story.mp3 is as it was) or after (story.mp3
\* holds a part of this item's recording).
generate_audio ==
    /\ pc = "tts"
    /\ \/ /\ audio_ok' = TRUE
          /\ storyMp3' = itemIdx
       \/ /\ audio_ok' = FALSE
          /\ storyMp3' \in {storyMp3, itemIdx}
    /\ audio_file' = AudioArg(audio_ok')
    /\ trace' = Append(Append(trace, Event("tts", audio_ok')),
                       Event("send", ~IsNone(audio_file')))
    /\ pc' = "tg_post"
    /\ UNCHANGED << feedVars, ledgerVars, itemIdx, transcript, content, success,
                    gwfVars, tierVars, status, textPosts, voicePosts, otherSpecVars >>

(***************************************************************************)
(* send_to_telegram, lines 324-356.                                        *)
(***************************************************************************)
\* `return True` or the except's `return False`: main's success is assigned.
ReturnSent(ok) ==
    /\ success' = ok
    /\ trace' = Append(trace, Event("sent", ok))
    /\ pc' = "record"

\* A retry on every status of the 4xx class.
RetriesOn4xx(code) == code \in 400..499

\* `if response.status_code == 400`: the text is sent again as plain text.
RetriesAsPlainText(code) == code = 400

\* The first requests.post, with parse_mode Markdown: it raises, or answers.
tg_post ==
    /\ pc = "tg_post"
    /\ textPosts' = Append(textPosts, "Markdown")
    /\ \/ /\ ReturnSent(FALSE)
          /\ UNCHANGED status
       \/ /\ status' \in Statuses
          /\ pc' = IF RetriesAsPlainText(status') THEN "tg_retry" ELSE "tg_check"
          /\ UNCHANGED << success, trace >>
    /\ UNCHANGED << feedVars, ledgerVars, itemIdx, transcript, content, audio_ok,
                    gwfVars, tierVars, audio_file, voicePosts, storyMp3, otherSpecVars >>

\* The answer was 400: the same text is posted with parse_mode None.
tg_retry ==
    /\ pc = "tg_retry"
    /\ textPosts' = Append(textPosts, "None")
    /\ \/ /\ ReturnSent(FALSE)
          /\ UNCHANGED status
       \/ /\ status' \in Statuses
          /\ pc' = "tg_check"
          /\ UNCHANGED << success, trace >>
    /\ UNCHANGED << feedVars, ledgerVars, itemIdx, transcript, content, audio_ok,
                    gwfVars, tierVars, audio_file, voicePosts, storyMp3, otherSpecVars >>

\* response.raise_for_status() and line 344: an error status raises; else
\* the voice is posted when an audio file was passed and exists.
tg_check ==
    /\ pc = "tg_check"
    /\ IF status >= 400
       THEN ReturnSent(FALSE)
       ELSE IF ~IsNone(audio_file) /\ storyMp3 # 0
            THEN /\ pc' = "tg_voice"
                 /\ UNCHANGED << success, trace >>
            ELSE ReturnSent(TRUE)
    /\ UNCHANGED << feedVars, ledgerVars, itemIdx, transcript, content, audio_ok,
                    gwfVars, tierVars, tgVars, storyMp3, otherSpecVars >>

\* Lines 345-353: opening the file or posting it raises; or the voice is
\* posted (its status is not looked at) and the file is unlinked, which may
\* raise too.
tg_voice ==
    /\ pc = "tg_voice"
    /\ \/ /\ ReturnSent(FALSE)
          /\ UNCHANGED << voicePosts, storyMp3 >>
       \/ /\ voicePosts' = Append(voicePosts, storyMp3)
          /\ \E unlinked \in BOOLEAN :
               /\ storyMp3' = IF unlinked THEN 0 ELSE storyMp3
               /\ success' = unlinked
               /\ trace' = Append(Append(trace, Event("voice", storyMp3 = itemIdx)),
                                  Event("sent", unlinked))
          /\ pc' = "record"
    /\ UNCHANGED << feedVars, ledgerVars, itemIdx, transcript, content, audio_ok,
                    gwfVars, tierVars, audio_file, status, textPosts, otherSpecVars >>

(***************************************************************************)
(* main, lines 404-408: the ledger is updated after a successful delivery. *)
(***************************************************************************)
\* A main that records the item whatever send_to_telegram returned.
RecordsAlways(ok) == TRUE

\* Whether main records the item: `if success:`.
Records(ok) == ok

\* history.add(video["id"]); save_history(history); and the end of the body.
record ==
    /\ pc = "record"
    /\ IF Records(success)
       THEN /\ history' = history \cup {video.id}
            /\ \E saved \in save_history(history', histFile) :
                 /\ histFile' = saved.file
                 /\ trace' = Append(Append(trace, Event("add", TRUE)),
                                    Event("save", saved.ok))
       ELSE UNCHANGED << history, histFile, trace >>
    /\ EndIteration
    /\ audio_file' = None
    /\ status' = 0
    /\ textPosts' = << >>
    /\ voicePosts' = << >>
    /\ UNCHANGED << feedVars, loaded, itemIdx, gwfVars, tierVars, storyMp3,
                    otherSpecVars >>

Next ==
    \/ main_start
    \/ parse_feed
    \/ select_entry
    \/ next_video
    \/ main_done
    \/ tier1
    \/ tier2
    \/ tier3_download
    \/ tier3_upload
    \/ tier3_poll
    \/ tier3_transcribe
    \/ tier3_cleanup
    \/ gwf_attempt
    \/ gwf_exhausted
    \/ got_transcript
    \/ analyze_return
    \/ got_content
    \/ generate_audio
    \/ tg_post
    \/ tg_retry
    \/ tg_check
    \/ tg_voice
    \/ record

Spec == Init /\ [][Next]_vars

(***************************************************************************)
(* generate_with_fallback on its own: one call, from either caller.        *)
(***************************************************************************)
InitSelector ==
    /\ pc = "gwf"
    /\ gwfCaller \in {"tier3", "analyze"}
    /\ gwfStatus = "running"
    /\ modelIdx = 1
    /\ attempted = << >>
    /\ failures = 0
    /\ response = None
    /\ gwfResult = None
    /\ lastClass = "none"
    /\ slept = 0
    /\ feedsJson = FeedFile("missing", JNull)
    /\ YOUTUBE_FEEDS = LoadFeeds(feedsJson)
    /\ histFile = [state |-> "missing", videos |-> << >>]
    /\ new_videos = << >>
    /\ itemIdx = 0
    /\ localAudio = {}
    /\ NoPoll
    /\ NoItem
    /\ NoTiers
    /\ NoDelivery
    /\ NoOtherSpec

NextSelector ==
    \/ gwf_attempt
    \/ gwf_exhausted

SpecSelector == InitSelector /\ [][NextSelector]_vars

(***************************************************************************)
(* The except block of generate_with_fallback on its own: the attempt of   *)
(* the first or of the last candidate raises an exception whose message    *)
(* holds any of the substrings the handler looks for.                      *)
(***************************************************************************)
InitClassify ==
    /\ pc = "gwf"
    /\ exc \in {Some(m) : m \in SUBSET ErrorMarks}
    /\ gwfCaller = "analyze"
    /\ gwfStatus = "running"
    /\ modelIdx \in {1, Len(models_to_try)}
    /\ attempted = SubSeq(models_to_try, 1, modelIdx - 1)
    /\ failures = modelIdx - 1
    /\ response = None
    /\ gwfResult = None
    /\ lastClass = "none"
    /\ slept = 0
    /\ parseIn = None
    /\ parseOut = None
    /\ added = << >>
    /\ feedsJson = FeedFile("missing", JNull)
    /\ YOUTUBE_FEEDS = LoadFeeds(feedsJson)
    /\ histFile = [state |-> "missing", videos |-> << >>]
    /\ new_videos = << >>
    /\ itemIdx = 0
    /\ localAudio = {}
    /\ NoPoll
    /\ NoItem
    /\ NoTiers
    /\ NoDelivery

\* The attempt of models_to_try[modelIdx] raises the exception exc.
attempt_raises ==
    /\ pc = "gwf"
    /\ lastClass = "none"
    /\ ~IsNone(exc)
    /\ modelIdx \in 1..Len(models_to_try)
    /\ attempted' = Append(attempted, models_to_try[modelIdx])
    /\ HandleFailure(Val(exc))
    /\ UNCHANGED << feedVars, ledgerVars, itemIdx, itemVars, trace, gwfCaller, tierVars,
                    tgVars, storyMp3, otherSpecVars >>

SpecClassify == InitClassify /\ [][attempt_raises]_vars

(***************************************************************************)
(* get_transcript on its own: one call, for one video, whose audio file    *)
(* may be on disk already.                                                 *)
(***************************************************************************)
InitTranscript ==
    /\ pc = "tier1"
    /\ feedsJson = FeedFile("missing", JNull)
    /\ YOUTUBE_FEEDS = LoadFeeds(feedsJson)
    /\ histFile = [state |-> "missing", videos |-> << >>]
    /\ new_videos \in {<< [id |-> v] >> : v \in VideoIds}
    /\ itemIdx = 1
    /\ localAudio \in SUBSET {new_videos[1].id}
    /\ NoPoll
    /\ NoItem
    /\ NoGwf
    /\ NoTiers
    /\ NoDelivery
    /\ NoOtherSpec

NextTranscript ==
    \/ tier1
    \/ tier2
    \/ tier3_download
    \/ tier3_upload
    \/ tier3_poll
    \/ tier3_transcribe
    \/ tier3_cleanup
    \/ gwf_attempt
    \/ gwf_exhausted

SpecTranscript == InitTranscript /\ [][NextTranscript]_vars

(***************************************************************************)
(* The claims about generate_with_fallback (under SpecSelector).           *)
(***************************************************************************)
\* The candidates of the list are all different.
NoRepeat(q) == \A i, j \in 1..Len(q) : i # j => q[i] # q[j]

\* C1: whatever the outcomes of the attempts, the candidates are attempted
\* strictly in list order, each at most once; no failure aborts the call; and
\* when the Nth candidate is the first to succeed, exactly the candidates
\* 1..N-1 were attempted before it and all failed, the value returned is the
\* Nth candidate's text, and the loop is left, so that no later candidate is
\* attempted.
C1_InOrderFirstSuccessWins ==
    /\ Len(attempted) <= Len(models_to_try)
    /\ \A i \in 1..Len(attempted) : attempted[i] = models_to_try[i]
    /\ NoRepeat(attempted)
    /\ gwfStatus # "raised"
    /\ gwfStatus = "running" => IsNone(response) /\ failures = Len(attempted)
    /\ ~IsNone(response) =>
          /\ gwfStatus = "returned"
          /\ pc # "gwf"
          /\ failures = Len(attempted) - 1
          /\ Val(response).model = models_to_try[Len(attempted)]
          /\ gwfResult = Some(Val(response).text)

\* The third candidate succeeded after the first two had failed.
C1_Witness ==
    /\ gwfStatus = "returned"
    /\ ~IsNone(response)
    /\ Len(attempted) = 3
    /\ failures = 2

\* C2: when every attempt fails, whatever the classes of the failures, the
\* call goes through the whole list, each candidate once, and returns None;
\* no exception leaves the function, and while it runs it has a next step.
C2_AllFailReturnsNone ==
    /\ gwfStatus # "raised"
    /\ pc # "crashed"
    /\ pc = "gwf" => ENABLED (gwf_attempt \/ gwf_exhausted)
    /\ (gwfStatus = "running" /\ failures = Len(attempted)) =>
          modelIdx = Len(attempted) + 1
    /\ (gwfStatus = "returned" /\ IsNone(response)) =>
          /\ attempted = models_to_try
          /\ failures = Len(models_to_try)
          /\ IsNone(gwfResult)

\* All the candidates failed, the last with a failure of class Other, and
\* None was returned.
C2_Witness ==
    /\ gwfStatus = "returned"
    /\ IsNone(response)
    /\ IsNone(gwfResult)
    /\ failures = Len(models_to_try)
    /\ lastClass = "Other"

(***************************************************************************)
(* The claims about get_transcript (under SpecTranscript).                 *)
(***************************************************************************)
\* C3: whenever tier 1 yields text, that text is what get_transcript returns,
\* and neither tier 2 nor tier 3 is invoked in that call.
C3_Tier1TextIsResult ==
    ~IsNone(text) =>
        /\ pc = "got_transcript"
        /\ transcript = text
        /\ tiers = << 1 >>

\* Tier 1 yielded a text and get_transcript returned it.
C3_Witness ==
    /\ pc = "got_transcript"
    /\ text = Some(<< "a" >>)
    /\ transcript = Some(<< "a" >>)

\* get_transcript is running.
InGetTranscript ==
    pc \in {"tier1", "tier2", "tier3", "tier3_upload", "tier3_wait", "tier3_cleanup", "gwf"}

\* C4: the tiers are only ever tried in the order 1, 2, 3; when tier 1 failed
\* and tier 2 failed (it raised, or found no subtitle text), tier 3 is
\* attempted; and when tier 3 fails too, at any of its steps (the download,
\* the upload, a status poll, the selector returning None), the result is
\* None.  No exception leaves get_transcript: it runs until it returns.
C4_FallThroughToTier3 ==
    /\ tiers \in {<< >>, << 1 >>, << 1, 2 >>, << 1, 2, 3 >>}
    /\ pc # "crashed"
    /\ InGetTranscript => ENABLED NextTranscript
    /\ (pc = "got_transcript" /\ IsNone(text) /\ Falsy(found_text)) =>
          tiers = << 1, 2, 3 >>
    /\ (pc = "got_transcript" /\ tiers = << 1, 2, 3 >>) =>
          transcript = IF gwfStatus = "returned" THEN gwfResult ELSE None

\* Tiers 1 and 2 failed, tier 3 got as far as the selector, which returned
\* None, and get_transcript returned None.
C4_Witness ==
    /\ pc = "got_transcript"
    /\ tiers = << 1, 2, 3 >>
    /\ found_text = Some(<< >>)
    /\ gwfStatus = "returned"
    /\ IsNone(gwfResult)
    /\ IsNone(transcript)

(***************************************************************************)
(* analyze_video's parser on its own: one response text, parsed.           *)
(***************************************************************************)
InitParse ==
    /\ pc = "parse"
    /\ parseIn \in {None} \cup {Some(t) : t \in TextsUpTo(MaxTextLen)}
    /\ parseOut = None
    /\ added = << >>
    /\ exc = None
    /\ feedsJson = FeedFile("missing", JNull)
    /\ YOUTUBE_FEEDS = LoadFeeds(feedsJson)
    /\ histFile = [state |-> "missing", videos |-> << >>]
    /\ new_videos = << >>
    /\ itemIdx = 0
    /\ localAudio = {}
    /\ NoPoll
    /\ NoItem
    /\ NoGwf
    /\ NoTiers
    /\ NoDelivery

\* Lines 288-311 applied to the text the selector returned.
parse_response ==
    /\ pc = "parse"
    /\ parseOut' = analyze_parse(parseIn)
    /\ pc' = "parsed"
    /\ UNCHANGED << feedVars, ledgerVars, itemIdx, itemVars, trace, gwfVars, tierVars,
                    tgVars, storyMp3, parseIn, added, exc >>

SpecParse == InitParse /\ [][parse_response]_vars

\* The text holds a TELEGRAM marker and, after it, a PODCAST marker.
MarkersInOrder(t) ==
    \E i, j \in 1..Len(t) :
        i < j /\ t[i] = TELEGRAM_MARKER /\ t[j] = PODCAST_MARKER

\* Neither marker is in the text.
MarkerFree(t) == ~Contains(t, TELEGRAM_MARKER) /\ ~Contains(t, PODCAST_MARKER)

\* C5: for every response text, when it holds the TELEGRAM marker and after
\* it the PODCAST marker, the result is not None and neither the short post
\* nor the spoken script holds a marker; when it lacks one of the markers the
\* result is None.
C5_MarkersStripped ==
    (pc = "parsed" /\ ~IsNone(parseIn)) =>
        /\ MarkersInOrder(Val(parseIn)) =>
              /\ ~IsNone(parseOut)
              /\ MarkerFree(Val(parseOut).telegram)
              /\ MarkerFree(Val(parseOut).podcast)
        /\ ~(Contains(Val(parseIn), TELEGRAM_MARKER)
               /\ Contains(Val(parseIn), PODCAST_MARKER)) =>
              IsNone(parseOut)

(***************************************************************************)
(* The ledger on its own: ids are added one after another, each add        *)
(* followed by save_history; the process may restart and load the file.    *)
(***************************************************************************)
InitLedger ==
    /\ pc = "ledger"
    /\ histFile = [state |-> "missing", videos |-> << >>]
    /\ added = << >>
    /\ parseIn = None
    /\ parseOut = None
    /\ exc = None
    /\ feedsJson = FeedFile("missing", JNull)
    /\ YOUTUBE_FEEDS = LoadFeeds(feedsJson)
    /\ new_videos = << >>
    /\ itemIdx = 0
    /\ localAudio = {}
    /\ NoPoll
    /\ NoItem
    /\ NoGwf
    /\ NoTiers
    /\ NoDelivery

\* history.add(id); save_history(history)
ledger_add ==
    /\ pc = "ledger"
    /\ Len(added) < MaxAdds
    /\ \E id \in VideoIds :
         /\ history' = history \cup {id}
         /\ added' = Append(added, id)
    /\ \E saved \in save_history(history', histFile) :
         /\ histFile' = saved.file
         /\ trace' = Append(trace, Event("save", saved.ok))
    /\ UNCHANGED << pc, feedVars, loaded, itemIdx, itemVars, gwfVars, tierVars, tgVars,
                    storyMp3, parseIn, parseOut, exc >>

\* A new run: history = load_history()
ledger_restart ==
    /\ pc = "ledger"
    /\ history' = load_history(histFile)
    /\ UNCHANGED << pc, feedVars, histFile, loaded, itemIdx, itemVars, trace, gwfVars,
                    tierVars, tgVars, storyMp3, otherSpecVars >>

NextLedger ==
    \/ ledger_add
    \/ ledger_restart

SpecLedger == InitLedger /\ [][NextLedger]_vars

\* The elements of a sequence.
Range(q) == {q[i] : i \in 1..Len(q)}

\* Every save_history so far wrote the file.
AllSavesOk == \A k \in 1..Len(trace) : trace[k].op = "save" => trace[k].ok

\* C6: the persisted list never exceeds the cap, and eviction is oldest
\* first: after distinct ids have been added one after another (each add
\* followed by save_history, every write going through), the file holds the
\* most recently added ones, as many as the cap allows; after cap + 1 adds
\* the one id evicted is the oldest.
C6_OldestEvictedFirst ==
    /\ Len(histFile.videos) <= HistoryCap
    /\ (added # << >> /\ NoRepeat(added) /\ AllSavesOk) =>
          /\ histFile.state = "ok"
          /\ Range(histFile.videos) = Range(LastN(added, HistoryCap))

(***************************************************************************)
(* The claims about the poll cycle (under Spec).                           *)
(***************************************************************************)
\* The trace holds the event.
Has(op, i, ok) ==
    \E k \in 1..Len(trace) : trace[k] = [op |-> op, item |-> i, ok |-> ok]

\* How many events of the kind the trace holds for the item.
Count(op, i) ==
    Cardinality({k \in 1..Len(trace) : trace[k].op = op /\ trace[k].item = i})

\* send_to_telegram is running.
InDelivery == pc \in {"tg_post", "tg_retry", "tg_check", "tg_voice"}

\* The items whose delivery returned success.
Delivered == {i \in 1..Len(new_videos) : Has("sent", i, TRUE)}

\* C7: send_to_telegram is never invoked for an item whose id is in the
\* ledger at the moment of the invocation, whatever the feeds (several may
\* have the same newest video): no id is delivered successfully twice in one
\* cycle, and an id loaded from the ledger at the start is never delivered.
C7_NoRedelivery ==
    /\ InDelivery => video.id \notin history
    /\ \A i, j \in Delivered : i # j => new_videos[i].id # new_videos[j].id
    /\ \A i \in Delivered : new_videos[i].id \notin loaded

\* C8: at the end of the cycle, for an item whose transcript, synthesis,
\* audio rendering and delivery all succeeded (and with every write of the
\* ledger file of the cycle going through), send_to_telegram was invoked
\* exactly once for the item, with the text and the recording of the item,
\* and the item's id is in the ledger, in memory and in the file.
C8_DeliveredOnceAndRecorded ==
    (pc = "done" /\ AllSavesOk) =>
        \A i \in 1..Len(new_videos) :
            (/\ Has("transcript", i, TRUE)
             /\ Has("synth", i, TRUE)
             /\ Has("tts", i, TRUE)
             /\ Has("sent", i, TRUE)) =>
                /\ Count("send", i) = 1
                /\ Has("send", i, TRUE)
                /\ Has("voice", i, TRUE)
                /\ new_videos[i].id \in history
                /\ histFile.state = "ok"
                /\ new_videos[i].id \in Range(histFile.videos)

\* The item was given up: no transcript, or no content.
Skipped(i) == Has("transcript", i, FALSE) \/ Has("synth", i, FALSE)

\* C9: for an item whose transcript is null or whose synthesis is null there
\* is no audio rendering and no delivery, and the ledger, in memory and in
\* the file, is not changed by the item.
C9_SkipHasNoEffect ==
    /\ [](\A i \in 1..Len(new_videos) :
            Skipped(i) =>
                \A k \in 1..Len(trace) :
                    trace[k].item = i => trace[k].op \in {"transcript", "synth"})
    /\ [][(history' # history \/ histFile' # histFile) =>
             \/ pc = "start"
             \/ /\ pc = "record"
                /\ ~Skipped(itemIdx)
                /\ Has("sent", itemIdx, TRUE)]_vars

\* The cycle is over; the first item had no transcript, the second no content.
C9_Witness ==
    /\ pc = "done"
    /\ Has("transcript", 1, FALSE)
    /\ Has("synth", 2, FALSE)

\* C10: new_videos holds at most one item for each feed polled; an item is
\* appended only for the first (newest) entry of the feed just parsed, and
\* only when its id is not in the ledger as loaded; no id of the loaded
\* ledger is ever in new_videos.
C10_NewestUnseenOnly ==
    /\ [](/\ Len(new_videos) <= feedIdx - 1
          /\ \A k \in 1..Len(new_videos) : new_videos[k].id \notin loaded)
    /\ [][new_videos' # new_videos =>
             /\ pc = "feed_parsed"
             /\ Val(feed) # << >>
             /\ new_videos' = Append(new_videos, [id |-> Val(feed)[1]])
             /\ Val(feed)[1] \notin loaded]_vars

\* A feed whose newest entry is in the loaded ledger and whose older entry is
\* not has been dealt with, and nothing was selected.
C10_Witness ==
    /\ pc \in {"feeds", "videos"}
    /\ feedIdx = 2
    /\ ~IsNone(feed)
    /\ Len(Val(feed)) = 2
    /\ Val(feed)[1] \in loaded
    /\ Val(feed)[2] \notin loaded
    /\ new_videos = << >>


(***************************************************************************)
(* The claims about the configuration files (under Spec).                  *)
(***************************************************************************)
\* feeds.json as the program expects it: a JSON array whose elements are url
\* strings or objects with a url field.
WellFormedFeeds(file) ==
    /\ file.state = "ok"
    /\ file.value.t = "list"
    /\ \A i \in 1..Len(file.value.v) :
         \/ file.value.v[i].t = "str"
         \/ file.value.v[i].t = "obj" /\ HasKey(file.value.v[i], "url")

\* C18: errors of the ledger file and of the feed configuration never abort
\* the run: main never raises; a feeds.json that is missing or malformed
\* leaves the empty feed list; a history.json that is missing or unreadable
\* gives the empty ledger.
C18_ConfigErrorsDegrade ==
    /\ pc # "crashed"
    /\ ~WellFormedFeeds(feedsJson) => YOUTUBE_FEEDS = NoFeeds
    /\ (pc \in {"feeds", "feed_parsed"} /\ histFile.state # "ok") =>
          history = {} /\ loaded = {}


(***************************************************************************)
(* The claims about the poll cycle as a whole (under Spec).                *)
(***************************************************************************)
\* How far main has come inside the body of the video loop: the stages in
\* the order of the code, each loop inside a stage counted by its position.
StageOf ==
    LET n == Len(models_to_try) + 1
        g1 == 5 + MaxPolls
        g2 == g1 + n + 2
    IN  CASE pc = "tier1" -> 1
          [] pc = "tier2" -> 2
          [] pc = "tier3" -> 3
          [] pc = "tier3_upload" -> 4
          [] pc = "tier3_wait" -> 5 + polls
          [] pc = "gwf" /\ gwfCaller = "tier3" -> g1 + modelIdx
          [] pc = "tier3_cleanup" -> g1 + n + 1
          [] pc = "got_transcript" -> g1 + n + 2
          [] pc = "gwf" /\ gwfCaller = "analyze" -> g2 + modelIdx
          [] pc = "analyze_parse" -> g2 + n + 1
          [] pc = "got_content" -> g2 + n + 2
          [] pc = "tts" -> g2 + n + 3
          [] pc = "tg_post" -> g2 + n + 4
          [] pc = "tg_retry" -> g2 + n + 5
          [] pc = "tg_check" -> g2 + n + 6
          [] pc = "tg_voice" -> g2 + n + 7
          [] pc = "record" -> g2 + n + 8

\* One more than the largest StageOf.
Stages == 2 * Len(models_to_try) + MaxPolls + 18

\* How far main has come in the cycle: a number every step of main
\* increases, and which is bounded, so that main cannot run for ever.
Progress ==
    LET feedsOver == 2 * Len(feed_urls) + 4
    IN  CASE pc = "start" -> 0
          [] pc = "feeds" -> 2 * feedIdx
          [] pc = "feed_parsed" -> 2 * feedIdx + 1
          [] pc = "videos" -> feedsOver + Stages * (itemIdx + 1)
          [] pc = "done" -> feedsOver + Stages * (itemIdx + 1) + 1
          [] pc = "crashed" -> 1
          [] OTHER -> feedsOver + Stages * itemIdx + StageOf

\* C11: whatever fails while a feed or an item is handled (the feed parser,
\* the transcript tiers, the model calls, the parsing, the audio rendering,
\* the delivery, the write of the ledger), main goes on: nothing raises out
\* of the loops, main always has a next step until the cycle is over (in
\* analyze_video, whose step has no condition, the parser yields a value),
\* every step brings it further, and at the end of the cycle every feed has
\* been polled and get_transcript has been called once for every item of
\* new_videos.
C11_CycleCompletes ==
    /\ [][pc' = "crashed" => pc = "start"]_vars
    /\ [][Progress' > Progress]_vars
    /\ [](pc \notin {"done", "crashed", "analyze_parse"} => ENABLED Next)
    /\ [](pc = "analyze_parse" => Len(analyze_parse(gwfResult)) <= 1)
    /\ [](pc = "done" =>
            /\ feedIdx = Len(feed_urls) + 1
            /\ itemIdx = Len(new_videos)
            /\ \A i \in 1..Len(new_videos) : Count("transcript", i) = 1)

\* The cycle is over; the delivery of the first item failed and the write of
\* the ledger failed for the second.
C11_Witness ==
    /\ pc = "done"
    /\ Has("sent", 1, FALSE)
    /\ Has("save", 2, FALSE)

\* The place of a kind of event in the body of the video loop.
Rank(op) ==
    CASE op = "transcript" -> 1
      [] op = "synth" -> 2
      [] op = "tts" -> 3
      [] op = "send" -> 4
      [] op = "voice" -> 5
      [] op = "sent" -> 6
      [] op = "add" -> 7
      [] op = "save" -> 8

\* The ids main added to the ledger so far.
AddedIds == {new_videos[trace[k].item].id : k \in {n \in 1..Len(trace) : trace[n].op = "add"}}

\* C12: the events of an item come in the order transcript, synthesis, audio
\* rendering, delivery, ledger add, ledger save, and all of them before the
\* first event of the next item; the ledger holds what was loaded and the
\* ids added, and an id is added only after the delivery of the same item
\* returned success; the save follows the add at once.
C12_StagesInOrder ==
    /\ \A k, l \in 1..Len(trace) :
         k < l =>
            \/ trace[k].item < trace[l].item
            \/ /\ trace[k].item = trace[l].item
               /\ Rank(trace[k].op) < Rank(trace[l].op)
    /\ pc \in {"start", "ledger"} \/ history = loaded \cup AddedIds
    /\ \A k \in 1..Len(trace) :
         trace[k].op = "add" =>
            /\ \E j \in 1..(k - 1) :
                 trace[j] = [op |-> "sent", item |-> trace[k].item, ok |-> TRUE]
            /\ k < Len(trace)
            /\ trace[k + 1].op = "save"
            /\ trace[k + 1].item = trace[k].item

\* The cycle is over; two items went through every stage, the second with
\* its voice.
C12_Witness ==
    /\ pc = "done"
    /\ Has("save", 1, TRUE)
    /\ Has("voice", 2, TRUE)
    /\ Has("save", 2, TRUE)

\* C13: when the audio rendering of an item fails, main goes to the next
\* item: send_to_telegram is not called for the item (no text-only
\* delivery), and its id is not added to the ledger.
C13_NoDeliveryWithoutAudio ==
    \A i \in 1..Len(new_videos) :
        Has("tts", i, FALSE) =>
            /\ Count("send", i) = 0
            /\ Count("sent", i) = 0
            /\ Count("add", i) = 0

\* The body of the video loop is over for the item.
Finished(i) == i < itemIdx \/ (i = itemIdx /\ pc \in {"videos", "done"})

\* C13 as amended: when the audio rendering of an item fails,
\* send_to_telegram is still called once for the item, with the text and
\* no audio file; no voice is posted; and the id of the item is added to
\* the ledger exactly when that delivery returns success.
C13_TextOnlyWithoutAudio ==
    \A i \in 1..Len(new_videos) :
        Has("tts", i, FALSE) =>
            /\ Count("send", i) = 1
            /\ Has("send", i, FALSE)
            /\ Count("voice", i) = 0
            /\ i = itemIdx /\ InDelivery => IsNone(audio_file) /\ voicePosts = << >>
            /\ Count("add", i) = 1 => Has("sent", i, TRUE)
            /\ Finished(i) =>
                  /\ Count("sent", i) = 1
                  /\ Has("sent", i, TRUE) => Count("add", i) = 1

\* The cycle is over; the rendering of the first item had failed, its text
\* was delivered and its id recorded.
C13_Witness ==
    /\ pc = "done"
    /\ Has("tts", 1, FALSE)
    /\ Has("sent", 1, TRUE)
    /\ Has("add", 1, TRUE)

(***************************************************************************)
(* The claims about send_to_telegram (under Spec).                         *)
(***************************************************************************)
\* The endpoint accepted a text post of the delivery under way.
TextAccepted == status # 0 /\ status < 400

\* What the text posts and the voice post of a delivery have in common
\* whatever statuses lead to the plain-text retry: the first text post is the
\* Markdown one, the second (if any) the plain one, there is no third; the
\* voice is posted at most once, and only after a text post was accepted; a
\* delivery whose text was rejected in the end posts no voice and returns
\* failure.
DeliveryShape ==
    /\ textPosts \in {<< >>, << "Markdown" >>, << "Markdown", "None" >>}
    /\ InDelivery => textPosts # << >> \/ pc = "tg_post"
    /\ Len(voicePosts) <= 1
    /\ voicePosts # << >> => TextAccepted
    /\ pc = "tg_voice" => TextAccepted
    /\ (pc = "record" /\ ~TextAccepted) => voicePosts = << >> /\ ~success

\* C17 as stated: the plain-text retry is made exactly when the first post
\* is answered with a status of the 400 class (400..499).
C17_RetryOn400Class ==
    /\ [] DeliveryShape
    /\ [][(pc = "tg_post" /\ status' \in 400..499) => pc' = "tg_retry"]_vars
    /\ [][(pc = "tg_post" /\ pc' = "tg_retry") => status' \in 400..499]_vars
    /\ [][Len(textPosts') = 2 => pc = "tg_retry" \/ Len(textPosts) = 2]_vars

\* C17 as amended: the plain-text retry is made exactly when the first post
\* is answered with status 400; any other status of the first post
\* (accepted, or another error) is not retried.
C17_RetryOn400Only ==
    /\ [] DeliveryShape
    /\ [][(pc = "tg_post" /\ status' = 400) => pc' = "tg_retry"]_vars
    /\ [][(pc = "tg_post" /\ pc' = "tg_retry") => status' = 400]_vars
    /\ [][Len(textPosts') = 2 => pc = "tg_retry" \/ Len(textPosts) = 2]_vars
    /\ [](pc = "tg_retry" => status = 400 /\ textPosts = << "Markdown" >>)

\* The plain-text retry was made and rejected: no voice, failure returned.
C17_Witness ==
    /\ pc = "record"
    /\ textPosts = << "Markdown", "None" >>
    /\ status = 403
    /\ voicePosts = << >>
    /\ ~success

\* C19: when send_to_telegram returns failure for an item, no text post of
\* the item was accepted; an item whose text was accepted is recorded.
C19_FailureMeansNoText ==
    (pc = "record" /\ TextAccepted) => success /\ Records(success)

\* C20: the recording posted with an item is the one rendered from the
\* script of that item in this iteration, never one story.mp3 kept from an
\* earlier item.
C20_VoiceIsOfThisItem ==
    /\ \A k \in 1..Len(trace) : trace[k].op = "voice" => trace[k].ok
    /\ \A k \in 1..Len(voicePosts) : voicePosts[k] = itemIdx
    /\ pc = "tg_voice" => storyMp3 = itemIdx /\ audio_ok

\* The second item was delivered without a voice (its rendering failed)
\* while story.mp3 still held the recording of the first.
C20_Witness ==
    /\ pc = "record"
    /\ itemIdx = 2
    /\ storyMp3 = 1
    /\ Has("tts", 2, FALSE)
    /\ success

(***************************************************************************)
(* The claim about the failure classes (under SpecClassify).               *)
(***************************************************************************)
\* The message holds one of the two substrings.
Mentions(msg, a, b) == a \in msg \/ b \in msg

\* C16: a failed attempt is put into exactly one class, RateLimited before
\* NotFound before Overloaded before Other when the message fits several;
\* RateLimited pauses briefly, Overloaded longer, NotFound and Other not at
\* all; and whatever the class the loop goes on with the next candidate.
C16_ClassesAndPauses ==
    lastClass # "none" =>
        LET msg == Val(exc)
            rate == Mentions(msg, "429", "quota")
            gone == Mentions(msg, "404", "not found")
            busy == Mentions(msg, "503", "overloaded")
        IN  /\ lastClass \in {"RateLimited", "NotFound", "Overloaded", "Other"}
            /\ lastClass = "RateLimited" <=> rate
            /\ lastClass = "NotFound" <=> ~rate /\ gone
            /\ lastClass = "Overloaded" <=> ~rate /\ ~gone /\ busy
            /\ lastClass = "Other" <=> ~rate /\ ~gone /\ ~busy
            /\ lastClass = "RateLimited" => slept = 1
            /\ lastClass = "Overloaded" => slept = 2
            /\ lastClass \in {"NotFound", "Other"} => slept = 0
            /\ pc = "gwf"
            /\ gwfStatus = "running"
            /\ modelIdx = Len(attempted) + 1
            /\ failures = Len(attempted)
            /\ ENABLED (gwf_attempt \/ gwf_exhausted)

\* The message of the last candidate's failure fits NotFound and Overloaded.
C16_Witness ==
    /\ exc = Some({"404", "overloaded"})
    /\ lastClass = "NotFound"
    /\ slept = 0
    /\ modelIdx = Len(models_to_try) + 1

(***************************************************************************)
(* More claims about the parser (under SpecParse) and about tier 3 of      *)
(* get_transcript (under SpecTranscript).                                  *)
(***************************************************************************)
\* C14: a result is returned only for a response that holds both markers in
\* order; a response whose first PODCAST marker comes before its first
\* TELEGRAM marker gives None, never a result whose script holds the
\* TELEGRAM marker.
C14_OutOfOrderIsMalformed ==
    (pc = "parsed" /\ ~IsNone(parseIn) /\ ~IsNone(parseOut)) =>
        /\ Contains(Val(parseIn), TELEGRAM_MARKER)
        /\ Contains(Val(parseIn), PODCAST_MARKER)
        /\ Find(Val(parseIn), TELEGRAM_MARKER) < Find(Val(parseIn), PODCAST_MARKER)
        /\ ~Contains(Val(parseOut).podcast, TELEGRAM_MARKER)

\* C15: once tier 3 has its local audio file, every way out of the tier
\* leaves the file removed, and once the upload succeeded the way out is
\* the cleanup, which asks for the remote file to be deleted; the value
\* returned is the selector's, whatever the cleanup did.
C15_CleanupOnEveryExit ==
    [][(pc \in {"tier3_upload", "tier3_wait", "tier3_cleanup"} /\ pc' = "got_transcript") =>
          /\ video.id \notin localAudio'
          /\ uploaded # "none" => pc = "tier3_cleanup"
          /\ pc = "tier3_cleanup" => transcript' = gwfResult]_vars

=============================================================================
